---- MODULE Spec2Model ----
(***************************************************************************)
(* Model of the financial dashboard's data layer and of the views built    *)
(* on it: utils.load_data (the cached fetch-and-normalise function), the   *)
(* Comparison Dashboard's fetch and summary loops, and the RSI computation *)
(* of the Technical Analysis page.                                         *)
(***************************************************************************)
EXTENDS Integers, Sequences, FiniteSets, TLC

VARIABLES
    now,      \* wall clock, in seconds
    cache,    \* st.cache_data store of load_data: (ticker, (start, end)) -> entry
    last,     \* the most recent load_data call: arguments, what it did, what it returned
    cmp,      \* the Comparison Dashboard script: its position, locals and output
    ta,       \* the Technical Analysis script: prices, RSI window and the RSI column
    ks,       \* the Key Statistics script: the price column and the metrics
    session,  \* st.session_state: the values the views share
    run       \* the most recent run of a single-ticker view

vars == <<now, cache, last, cmp, ta, ks, session, run>>

----------------------------------------------------------------------------
(* Bounds *)

MaxRows == 1          \* longest upstream table, in rows
MaxPrice == 2         \* prices are 1..MaxPrice
MaxTicks == 2         \* the clock advances at most this many times
TickSeconds == 1800   \* seconds per clock advance
MaxLen == 9           \* longest price series given to the indicators
MaxWin == 8           \* largest RSI window tried
MaxPoints == 4        \* longest price column given to the Key Statistics metrics
TopPrice == 3         \* its prices are 1..TopPrice
MaxDates == 3         \* trading dates in the range of an indexed comparison

----------------------------------------------------------------------------
(* Tables (pandas DataFrames), reduced to what load_data and the views read *)

NaN == 0 - 1          \* a missing price; real prices are positive

TTL == 60 * 60

Tickers == {"", "AAPL", "MSFT"}

PriceVals == (1 .. MaxPrice) \cup {NaN}

RECURSIVE SeqsUpTo(_, _)
SeqsUpTo(S, n) ==
    IF n = 0 THEN {<<>>}
    ELSE LET shorter == SeqsUpTo(S, n - 1)
         IN  shorter \cup {Append(s, x) : s \in {t \in shorter : Len(t) = n - 1}, x \in S}

\* pd.DataFrame(): no columns, no rows
EmptyFrame ==
    [multi |-> FALSE, key |-> "", cols |-> {}, n |-> 0, close |-> <<>>, adj |-> <<>>]

\* df.empty: true when either axis has length 0
IsEmpty(df) == df.cols = {} \/ df.n = 0

\* the adjusted close the upstream reports next to a close
UpstreamAdj(c) == [i \in 1 .. Len(c) |-> IF c[i] = NaN THEN NaN ELSE c[i] + MaxPrice]

Layouts == {<<FALSE, "">>} \cup ({TRUE} \X (Tickers \ {""}))
ColSets == {{"Open"}, {"Open", "Close"}, {"Open", "Close", "Adj Close"}}

MkFrame(l, cs, c) ==
    [multi |-> l[1], key |-> l[2], cols |-> cs, n |-> Len(c),
     close |-> IF "Close" \in cs THEN c ELSE <<>>,
     adj |-> IF "Adj Close" \in cs THEN UpstreamAdj(c) ELSE <<>>]

\* what the upstream can hand back as a table: nothing at all, the OHLCV
\* header without rows, or rows under flat or two-level columns (level 1
\* holding a ticker symbol), with or without Close / Adj Close
UpstreamFrames ==
    {EmptyFrame, MkFrame(<<FALSE, "">>, {"Open", "Close", "Adj Close"}, <<>>)} \cup
    { MkFrame(l, cs, c) :
        l \in Layouts, cs \in ColSets, c \in SeqsUpTo(PriceVals, MaxRows) \ {<<>>} }

\* an upstream call either raises or returns a table; a reversed date range
\* never yields rows
Raised == [raises |-> TRUE, df |-> EmptyFrame]
Returned(df) == [raises |-> FALSE, df |-> df]
UpstreamOutcomes(start, end) ==
    {Raised} \cup {Returned(df) : df \in {f \in UpstreamFrames : start > end => f.n = 0}}
NotCalled == [raises |-> FALSE, df |-> EmptyFrame]

----------------------------------------------------------------------------
(* utils.load_data *)

\* lines 52-56: collapse two-level columns to the single-ticker schema
Flatten(df, ticker) ==
    IF df.multi
    THEN IF ticker = df.key
         THEN [df EXCEPT !.multi = FALSE, !.key = ""]      \* df.xs(key=ticker, level=1)
         ELSE [df EXCEPT !.multi = FALSE, !.key = ""]      \* columns.droplevel(1)
         \* (the table holds one symbol's columns, so both leave the same flat columns)
    ELSE df

\* lines 59-60
BackfillAdj(df) ==
    IF "Adj Close" \notin df.cols /\ "Close" \in df.cols
    THEN [df EXCEPT !.cols = @ \cup {"Adj Close"}, !.adj = df.close]
    ELSE df

Normalize(df, ticker) == BackfillAdj(Flatten(df, ticker))

\* load_data with the fallback also tried after the primary raised
LoadDataBody_FallbackOnError(ticker, primary, fallback) ==
    IF ticker = ""
    THEN [value |-> EmptyFrame, msgs |-> <<>>, upstream |-> <<>>]
    ELSE IF ~primary.raises /\ ~IsEmpty(primary.df)
    THEN [value |-> Normalize(primary.df, ticker), msgs |-> <<>>, upstream |-> <<"download">>]
    ELSE IF fallback.raises
    THEN [value |-> EmptyFrame, msgs |-> <<"history error">>,
          upstream |-> <<"download", "history">>]
    ELSE IF IsEmpty(fallback.df)
    THEN [value |-> fallback.df, msgs |-> <<>>, upstream |-> <<"download", "history">>]
    ELSE [value |-> Normalize(fallback.df, ticker), msgs |-> <<>>,
          upstream |-> <<"download", "history">>]

\* load_data without the fallback: an empty primary result is returned as it is
LoadDataBody_NoFallback(ticker, primary, fallback) ==
    IF ticker = ""
    THEN [value |-> EmptyFrame, msgs |-> <<>>, upstream |-> <<>>]
    ELSE IF primary.raises
    THEN [value |-> EmptyFrame, msgs |-> <<"download error">>, upstream |-> <<"download">>]
    ELSE IF IsEmpty(primary.df)
    THEN [value |-> primary.df, msgs |-> <<>>, upstream |-> <<"download">>]
    ELSE [value |-> Normalize(primary.df, ticker), msgs |-> <<>>, upstream |-> <<"download">>]

\* load_data without the early return for an empty ticker
LoadDataBody_NoEmptyTickerGuard(ticker, primary, fallback) ==
    IF primary.raises
    THEN [value |-> EmptyFrame, msgs |-> <<"download error">>, upstream |-> <<"download">>]
    ELSE IF ~IsEmpty(primary.df)
    THEN [value |-> Normalize(primary.df, ticker), msgs |-> <<>>, upstream |-> <<"download">>]
    ELSE IF fallback.raises
    THEN [value |-> EmptyFrame, msgs |-> <<"history error">>,
          upstream |-> <<"download", "history">>]
    ELSE IF IsEmpty(fallback.df)
    THEN [value |-> fallback.df, msgs |-> <<>>, upstream |-> <<"download", "history">>]
    ELSE [value |-> Normalize(fallback.df, ticker), msgs |-> <<>>,
          upstream |-> <<"download", "history">>]

\* load_data with the history() exception swallowed silently
LoadDataBody_SilentHistoryError(ticker, primary, fallback) ==
    IF ticker = ""
    THEN [value |-> EmptyFrame, msgs |-> <<>>, upstream |-> <<>>]
    ELSE IF primary.raises
    THEN [value |-> EmptyFrame, msgs |-> <<"download error">>, upstream |-> <<"download">>]
    ELSE IF ~IsEmpty(primary.df)
    THEN [value |-> Normalize(primary.df, ticker), msgs |-> <<>>, upstream |-> <<"download">>]
    ELSE IF fallback.raises
    THEN [value |-> EmptyFrame, msgs |-> <<>>, upstream |-> <<"download", "history">>]
    ELSE IF IsEmpty(fallback.df)
    THEN [value |-> fallback.df, msgs |-> <<>>, upstream |-> <<"download", "history">>]
    ELSE [value |-> Normalize(fallback.df, ticker), msgs |-> <<>>,
          upstream |-> <<"download", "history">>]

\* The body of load_data, given what the two upstream calls would do.
\* Result: the returned table, the st.error messages, the upstream calls made.
LoadDataBody(ticker, primary, fallback) ==
    IF ticker = ""
    THEN [value |-> EmptyFrame, msgs |-> <<>>, upstream |-> <<>>]
    ELSE IF primary.raises
    THEN [value |-> EmptyFrame, msgs |-> <<"download error">>, upstream |-> <<"download">>]
    ELSE IF ~IsEmpty(primary.df)
    THEN [value |-> Normalize(primary.df, ticker), msgs |-> <<>>, upstream |-> <<"download">>]
    ELSE IF fallback.raises
    THEN [value |-> EmptyFrame, msgs |-> <<"history error">>,
          upstream |-> <<"download", "history">>]
    ELSE IF IsEmpty(fallback.df)
    THEN [value |-> fallback.df, msgs |-> <<>>, upstream |-> <<"download", "history">>]
    ELSE [value |-> Normalize(fallback.df, ticker), msgs |-> <<>>,
          upstream |-> <<"download", "history">>]

\* whether the body reaches the fallback call, so that its outcome matters
NeedsFallback(ticker, primary) ==
    ticker # "" /\ ~primary.raises /\ IsEmpty(primary.df)

----------------------------------------------------------------------------
(* @st.cache_data(ttl=60 * 60) *)

NoEntry == [present |-> FALSE, value |-> EmptyFrame, msgs |-> <<>>, createdAt |-> 0]
NoEntries == [k \in {} |-> NoEntry]

Entry(c, k) == IF k \in DOMAIN c THEN c[k] ELSE NoEntry
Put(c, k, e) == [x \in DOMAIN c \cup {k} |-> IF x = k THEN e ELSE c[x]]

\* ttl=60 * 30
Live_HalfHour(e, t) == e.present /\ t - e.createdAt < 60 * 30

\* an entry still served at the instant its age equals the ttl
Live_Inclusive(e, t) == e.present /\ t - e.createdAt <= TTL

\* an entry is served while its age is below the ttl
Live(e, t) == e.present /\ t - e.createdAt < TTL

\* One call of the cached load_data on store c at time t: served from the
\* store when a live entry exists (the recorded st.error messages are
\* replayed), else the body runs and what it returns is stored, whatever it is.
CachedCall(c, t, ticker, start, end, primary, fallback) ==
    LET k == <<ticker, <<start, end>>>>
        e == Entry(c, k)
        r == LoadDataBody(ticker, primary, fallback)
    IN  IF Live(e, t)
        THEN [hit |-> TRUE, age |-> t - e.createdAt, createdAt |-> e.createdAt, value |-> e.value,
              msgs |-> e.msgs, upstream |-> <<>>, cache |-> c]
        ELSE [hit |-> FALSE, age |-> IF e.present THEN t - e.createdAt ELSE 0 - 1,
              createdAt |-> t, value |-> r.value,
              msgs |-> r.msgs, upstream |-> r.upstream,
              cache |-> Put(c, k, [present |-> TRUE, value |-> r.value,
                                   msgs |-> r.msgs, createdAt |-> t])]

\* the upstream outcomes a call can meet: none when it is served from the
\* store or returns early, the fallback's only when the body reaches it
PrimaryChoices(c, t, k) ==
    IF Live(Entry(c, k), t) \/ k[1] = "" THEN {NotCalled} ELSE UpstreamOutcomes(k[2][1], k[2][2])
FallbackChoices(c, t, k, primary) ==
    IF ~Live(Entry(c, k), t) /\ NeedsFallback(k[1], primary)
    THEN UpstreamOutcomes(k[2][1], k[2][2]) ELSE {NotCalled}

NoCall ==
    [called |-> FALSE, key |-> <<"", <<1, 2>>>>, at |-> 0, hit |-> FALSE,
     age |-> 0 - 1, createdAt |-> 0,
     primary |-> NotCalled, fallback |-> NotCalled,
     value |-> EmptyFrame, msgs |-> <<>>, upstream |-> <<>>]

\* a script calls load_data(ticker, start, end)
Fetch(k) ==
    \E primary \in PrimaryChoices(cache, now, k) :
      \E fallback \in FallbackChoices(cache, now, k, primary) :
        LET r == CachedCall(cache, now, k[1], k[2][1], k[2][2], primary, fallback)
        IN  /\ last' = [called |-> TRUE, key |-> k, at |-> now, hit |-> r.hit,
                        age |-> r.age, createdAt |-> r.createdAt,
                        primary |-> primary, fallback |-> fallback,
                        value |-> r.value, msgs |-> r.msgs, upstream |-> r.upstream]
            /\ cache' = r.cache
            /\ UNCHANGED <<now, cmp, ta, ks, session, run>>

\* the calls made in this model: the empty ticker and one symbol, over one range
FetchArgs == {<<"", <<1, 2>>>>, <<"AAPL", <<1, 2>>>>}

Call == \E k \in FetchArgs : Fetch(k)

\* time passes
Tick ==
    /\ now + TickSeconds <= MaxTicks * TickSeconds
    /\ now' = now + TickSeconds
    /\ UNCHANGED <<cache, last, cmp, ta, ks, session, run>>

----------------------------------------------------------------------------
(* The scripts at rest: the locals and output of a page that is not running *)

CmpIdle ==
    [pc |-> "idle", outcome |-> "none", tickers |-> <<>>, range |-> <<1, 2>>, i |-> 1,
     fetched |-> <<>>, skipped |-> {}, frames |-> <<>>, market_caps |-> {},
     indexed |-> <<>>, summary |-> <<>>, corr |-> "none"]

\* pages/4: the smallest RSI window of the slider
RSI_WIN_MIN == 7

TaIdle == [pc |-> "idle", prices |-> <<>>, rsi_win |-> RSI_WIN_MIN, rsi |-> <<>>]

\* a metric that was not computed
Unset == [kind |-> "none", num |-> 0, den |-> 1]

KsIdle ==
    [pc |-> "idle", column |-> <<>>, outcome |-> "none", prices |-> <<>>,
     total_return |-> Unset, vol_defined |-> FALSE, drawdown |-> <<>>, max_dd |-> Unset]

\* one run of a view: its inputs, the load_data calls it made, the table the
\* first call returned, and that table when the script ended (df with its
\* index, and the attributes of it the script assigned to)
NoRun ==
    [page |-> "none", ticker |-> "", range |-> <<1, 1>>, outcome |-> "none",
     calls |-> <<>>, returned |-> EmptyFrame, returned_index |-> "RangeIndex",
     df |-> EmptyFrame, df_index |-> "RangeIndex", assigned |-> {}]

----------------------------------------------------------------------------
(* st.session_state and the sidebar date inputs *)

\* the dates a date_input can hold
Days == {1, 2}
DateRanges == Days \X Days

\* a date key that is not in st.session_state
UnsetDate == 0

NoSession ==
    [selected_ticker |-> "unset", start_date |-> UnsetDate, end_date |-> UnsetDate,
     ta_start |-> UnsetDate, ta_end |-> UnsetDate,
     tickers_input |-> {"unset"}]

----------------------------------------------------------------------------
(* pages/3 Comparison_Dashboard.py *)

MAX_TICKERS == 5

\* sorted(set(raw_list)) over the symbols of the model
TickerOrder == <<"AAPL", "MSFT">>
InOrder(S) == SelectSeq(TickerOrder, LAMBDA t : t \in S)

Range(f) == {f[i] : i \in DOMAIN f}

\* lines 85-93: the price column as (date, price) rows, missing prices dropped;
\* the date of a row is its position in the fetched table
PriceCol(df) == IF "Adj Close" \in df.cols THEN "Adj Close" ELSE "Close"
PriceRows(df) ==
    LET col == IF "Adj Close" \in df.cols THEN df.adj ELSE df.close
        dated == [i \in 1 .. Len(col) |-> <<i, col[i]>>]
    IN  SelectSeq(dated, LAMBDA r : r[2] # NaN)

\* lines 31-62: the sidebar inputs are read and validated (the colours of
\* lines 64-72 are presentation only and left out)
CompareBegin ==
    /\ cmp.pc = "idle"
    /\ \E input \in SUBSET (Tickers \ {""}), range \in {<<1, 2>>, <<2, 1>>} :
         LET sorted == InOrder(input)
             tickers == IF Len(sorted) > MAX_TICKERS
                        THEN SubSeq(sorted, 1, MAX_TICKERS) ELSE sorted
         IN  /\ cmp' = IF tickers = <<>>
                        THEN [CmpIdle EXCEPT !.outcome = "stopped: no tickers"]
                        ELSE IF range[1] > range[2]
                        THEN [CmpIdle EXCEPT !.outcome = "stopped: dates",
                                             !.tickers = tickers, !.range = range]
                        ELSE [CmpIdle EXCEPT !.pc = "fetch", !.tickers = tickers,
                                             !.range = range]
             /\ session' = IF tickers = <<>> \/ range[1] > range[2]
                            THEN [session EXCEPT !.tickers_input = input]
                            ELSE [session EXCEPT
                                    !.tickers_input = input,
                                    !.start_date = range[1], !.end_date = range[2]]
    \* the other scripts are not running: their locals and output are gone
    /\ ta' = TaIdle /\ ks' = KsIdle /\ run' = NoRun
    /\ UNCHANGED <<now, cache, last>>

\* lines 79-101: one turn of the fetch loop
CompareFetch ==
    /\ cmp.pc = "fetch"
    /\ cmp.i <= Len(cmp.tickers)
    /\ LET t == cmp.tickers[cmp.i]
           k == <<t, cmp.range>>
       IN  \E primary \in PrimaryChoices(cache, now, k) :
             \E fallback \in FallbackChoices(cache, now, k, primary) :
               LET r == CachedCall(cache, now, t, cmp.range[1], cmp.range[2],
                                   primary, fallback)
                   df == r.value
                   seen == [cmp EXCEPT !.fetched = Append(@, t)]
               IN  /\ last' = [called |-> TRUE, key |-> k, at |-> now, hit |-> r.hit,
                               age |-> r.age, createdAt |-> r.createdAt,
                               primary |-> primary, fallback |-> fallback,
                               value |-> r.value, msgs |-> r.msgs,
                               upstream |-> r.upstream]
                   /\ cache' = r.cache
                   /\ cmp' =
                        IF IsEmpty(df)
                        THEN [seen EXCEPT !.skipped = @ \cup {t}, !.i = @ + 1]
                        ELSE IF PriceCol(df) \notin df.cols
                        THEN [seen EXCEPT !.pc = "idle", !.outcome = "crashed: KeyError"]
                        ELSE [seen EXCEPT
                                !.frames = Append(@, [ticker |-> t, rows |-> PriceRows(df)]),
                                !.market_caps = @ \cup {t},
                                !.i = @ + 1]
    /\ UNCHANGED <<now, ta, ks, session, run>>

\* the rows of ticker t in combined_df, by date
Subset(frames, t) ==
    LET own == SelectSeq(frames, LAMBDA f : f.ticker = t)
    IN  IF own = <<>> THEN <<>> ELSE own[1].rows

\* the price of the latest-dated row
StartPrice_Latest(rows) ==
    rows[CHOOSE i \in 1 .. Len(rows) : \A j \in 1 .. Len(rows) : rows[j][1] <= rows[i][1]][2]

\* lines 111-113: sort_values("Date").groupby("Ticker")["Price"].first() for one
\* ticker's rows: the price of its earliest-dated row
StartPrice(rows) ==
    rows[CHOOSE i \in 1 .. Len(rows) : \A j \in 1 .. Len(rows) : rows[i][1] <= rows[j][1]][2]

\* lines 115-117: each price over the ticker's start price, times 100, as a fraction
Indexed(rows) ==
    [i \in 1 .. Len(rows) |->
        [date |-> rows[i][1], num |-> rows[i][2] * 100, den |-> StartPrice(rows)]]

\* lines 141-152: total return in percent as a fraction; the volatility is a
\* number once there are two daily returns
SummaryRow(t, rows) ==
    [ticker |-> t,
     total_ret |-> [num |-> (rows[Len(rows)][2] - rows[1][2]) * 100, den |-> rows[1][2]],
     vol_defined |-> Len(rows) >= 3]

\* lines 103-195: after the loop
CompareFinish ==
    /\ cmp.pc = "fetch"
    /\ cmp.i > Len(cmp.tickers)
    /\ LET withRows == SelectSeq(cmp.tickers, LAMBDA t : Subset(cmp.frames, t) # <<>>)
       IN  cmp' =
             IF cmp.frames = <<>>
             THEN [cmp EXCEPT !.pc = "idle", !.outcome = "stopped: no data"]
             ELSE IF withRows = <<>>
             THEN \* combined_df has no rows: set_index("Ticker") on the empty summary
                  [cmp EXCEPT !.pc = "idle", !.outcome = "crashed: KeyError"]
             ELSE [cmp EXCEPT
                     !.pc = "idle", !.outcome = "done",
                     !.indexed = [j \in 1 .. Len(withRows) |->
                                    [ticker |-> withRows[j],
                                     rows |-> Indexed(Subset(cmp.frames, withRows[j]))]],
                     !.summary = [j \in 1 .. Len(withRows) |->
                                    SummaryRow(withRows[j], Subset(cmp.frames, withRows[j]))],
                     !.corr = IF Len(cmp.tickers) >= 2 THEN "matrix" ELSE "info"]
    /\ UNCHANGED <<now, cache, last, ta, ks, session, run>>

----------------------------------------------------------------------------
(* pages/4 Technical Analysis.py: the RSI column *)

\* floating-point values as exact fractions, with the two special values
Num(n, d) == [kind |-> "num", num |-> n, den |-> d]
NaNValue == [kind |-> "nan", num |-> 0, den |-> 1]
Inf == [kind |-> "inf", num |-> 0, den |-> 1]

\* a division whose zero divisor gives NaN whatever the dividend
FDiv_NaNOnZero(a, b) ==
    IF a.kind = "nan" \/ b.kind = "nan" THEN NaNValue
    ELSE IF b.num = 0 THEN NaNValue
    ELSE Num(a.num * b.den, a.den * b.num)

\* a / b on non-negative floats: x/0 is inf for x > 0, and 0/0 is NaN
FDiv(a, b) ==
    IF a.kind = "nan" \/ b.kind = "nan" THEN NaNValue
    ELSE IF b.num = 0 THEN (IF a.num = 0 THEN NaNValue ELSE Inf)
    ELSE Num(a.num * b.den, a.den * b.num)

\* 100 - 100 / (1 + rs)
RsiOf(rs) ==
    IF rs.kind = "nan" THEN NaNValue
    ELSE IF rs.kind = "inf" THEN Num(100, 1)          \* 100 / inf = 0
    ELSE Num(100 * (rs.den + rs.num) - 100 * rs.den, rs.den + rs.num)

\* prices.diff(): position 1 has no predecessor
Diff(p, i) == p[i] - p[i - 1]

RECURSIVE SumOver(_, _, _)
SumOver(f, lo, hi) == IF lo > hi THEN 0 ELSE f[hi] + SumOver(f, lo, hi - 1)

\* series.rolling(w).mean() at position i of a series whose position 1 is NaN
RollingMean(f, i, w) ==
    IF i - w + 1 < 2 THEN NaNValue ELSE Num(SumOver(f, i - w + 1, i), w)

\* lines 86-90
RSI(p, w) ==
    [i \in 1 .. Len(p) |->
        LET \* delta.clip(lower=0) and -delta.clip(upper=0)
            up == [j \in 2 .. Len(p) |-> IF Diff(p, j) > 0 THEN Diff(p, j) ELSE 0]
            down == [j \in 2 .. Len(p) |-> IF Diff(p, j) < 0 THEN 0 - Diff(p, j) ELSE 0]
            gain == RollingMean(up, i, w)
            loss == RollingMean(down, i, w)
        IN  RsiOf(FDiv(gain, loss))]

\* price series: a positive start followed by day-to-day moves
Moves == {0 - 1, 0, 1}

RECURSIVE Walk(_, _)
Walk(start, d) ==
    IF d = <<>> THEN <<start>>
    ELSE LET before == Walk(start, SubSeq(d, 1, Len(d) - 1))
         IN  Append(before, before[Len(before)] + d[Len(d)])

PriceSeries == {Walk(MaxLen, d) : d \in SeqsUpTo(Moves, MaxLen - 1)}

\* lines 85-92, on the prices and the window the script holds
ComputeRsi ==
    /\ ta.pc = "prices"
    /\ ta' = [ta EXCEPT !.pc = "done", !.rsi = RSI(ta.prices, ta.rsi_win)]
    /\ UNCHANGED <<now, cache, last, cmp, ks, session, run>>

----------------------------------------------------------------------------
(* pages/2 Key_Statistics.py: the metrics *)

\* line 47: df[price_col].dropna()
DropNa(col) == SelectSeq(col, LAMBDA x : x # NaN)

\* (a / b - 1) * 100 on positive prices
PctOver(a, b) ==
    LET q == FDiv(Num(a, 1), Num(b, 1))
    IN  IF q.kind = "num" THEN Num((q.num - q.den) * 100, q.den) ELSE q

\* a total return that is undefined below two points
TotalReturn_UndefinedBelowTwo(prices) ==
    IF Len(prices) < 2 THEN NaNValue ELSE PctOver(prices[Len(prices)], prices[1])

\* line 53: (prices.iloc[-1] / prices.iloc[0] - 1) * 100
TotalReturn(prices) == PctOver(prices[Len(prices)], prices[1])

Largest(S) == CHOOSE x \in S : \A y \in S : y <= x

\* a running maximum over the points before the current one
CumMax_Before(prices) ==
    [i \in 1 .. Len(prices) |->
        IF i = 1 THEN prices[1] ELSE Largest({prices[j] : j \in 1 .. i - 1})]

\* prices.cummax(): the largest price up to and including each point
CumMax(prices) == [i \in 1 .. Len(prices) |-> Largest({prices[j] : j \in 1 .. i})]

\* line 56: (prices / prices.cummax() - 1) * 100
Drawdown(prices) ==
    [i \in 1 .. Len(prices) |-> PctOver(prices[i], CumMax(prices)[i])]

\* order of two fractions with positive denominators
FLeq(a, b) == a.num * b.den <= b.num * a.den

\* series.min() and abs()
MinOf(s) == CHOOSE x \in Range(s) : \A y \in Range(s) : FLeq(x, y)
Abs(x) == Num(IF x.num < 0 THEN 0 - x.num ELSE x.num, x.den)

\* line 57
MaxDrawdown(drawdown) == Abs(MinOf(drawdown))

\* the price column of a non-empty table: prices, some of them missing
KsColumns == SeqsUpTo((1 .. TopPrice) \cup {NaN}, MaxPoints) \ {<<>>}

\* lines 47-57 on a price column: the script's locals when it ends
MetricsOf(column) ==
    LET prices == DropNa(column)
    IN  IF prices = <<>>
        THEN [KsIdle EXCEPT !.pc = "done", !.column = column,
                            !.outcome = "stopped: no prices"]
        ELSE [KsIdle EXCEPT
                !.pc = "done", !.column = column, !.outcome = "metrics",
                !.prices = prices,
                !.total_return = TotalReturn(prices),
                \* the standard deviation needs two daily returns
                !.vol_defined = Len(prices) >= 3,
                !.drawdown = Drawdown(prices),
                !.max_dd = MaxDrawdown(Drawdown(prices))]

\* lines 47-57, on the price column the script holds
ComputeMetrics ==
    /\ ks.pc = "column"
    /\ ks' = MetricsOf(ks.column)
    /\ UNCHANGED <<now, cache, last, cmp, ta, session, run>>

----------------------------------------------------------------------------
(* The single-ticker views: pages 1, 2, 4 and 5 *)

\* what the ticker text_input holds after strip().upper()
ViewTickers == {"", "AAPL"}

\* page 5: the symbols of the options dict
EtfTickers == {"^GSPC", "SPY"}

\* the index of a table: yfinance tables are indexed by date
IndexOf(df) == IF df = EmptyFrame THEN "RangeIndex" ELSE "DatetimeIndex"

\* pd.to_datetime(index)
ToDatetime(index) == "DatetimeIndex"

\* a run that stopped before load_data
Stopped(page, ticker, range, why) ==
    [NoRun EXCEPT !.page = page, !.ticker = ticker, !.range = range, !.outcome = why]

\* a run that called load_data and got df
Loaded(page, ticker, range, df, outcome) ==
    [NoRun EXCEPT !.page = page, !.ticker = ticker, !.range = range,
                  !.outcome = outcome, !.calls = <<<<ticker, range>>>>,
                  !.returned = df, !.returned_index = IndexOf(df),
                  !.df = df, !.df_index = IndexOf(df)]

\* the record of a load_data call that last keeps
CallRecord(k, r, primary, fallback) ==
    [called |-> TRUE, key |-> k, at |-> now, hit |-> r.hit,
     age |-> r.age, createdAt |-> r.createdAt,
     primary |-> primary, fallback |-> fallback,
     value |-> r.value, msgs |-> r.msgs, upstream |-> r.upstream]

\* df[price_col]
PriceColumn(df) == IF "Adj Close" \in df.cols THEN df.adj ELSE df.close

\* how a script goes on once load_data returned df: the df.empty check, the
\* price column lookup, and (pages 1, 2, 5) the prices.empty check
Outcome(df, checksPrices) ==
    IF IsEmpty(df) THEN "stopped: no data"
    ELSE IF PriceCol(df) \notin df.cols THEN "crashed: KeyError"
    ELSE IF checksPrices /\ DropNa(PriceColumn(df)) = <<>> THEN "stopped: no prices"
    ELSE "done"

\* a date check that never fires
BadDates_Never(range) == FALSE

\* if start_date > end_date: the sidebar error and st.stop()
BadDates(range) == range[1] > range[2]

\* the session with the dates stored before they are validated
SidebarWrites_DatesFirst(s, ticker, range) ==
    [s EXCEPT !.selected_ticker = ticker, !.start_date = range[1], !.end_date = range[2]]

\* pages 1 and 2, what the sidebar part leaves in the session: the ticker
\* is stored as soon as it is read, the dates only once they are validated
SidebarWrites(s, ticker, range) ==
    IF BadDates(range)
    THEN [s EXCEPT !.selected_ticker = ticker]
    ELSE [s EXCEPT !.selected_ticker = ticker,
                   !.start_date = range[1], !.end_date = range[2]]

\* pages 1 and 2 up to the price checks: the ticker is stored, the dates are
\* validated and stored, then the table is loaded
SharedDatesRun(page) ==
    \E ticker \in ViewTickers, range \in DateRanges :
        LET k == <<ticker, range>>
        IN  /\ session' = SidebarWrites(session, ticker, range)
            /\ IF BadDates(range)
               THEN /\ run' = Stopped(page, ticker, range, "stopped: dates")
                    /\ UNCHANGED <<cache, last>>
               ELSE IF ticker = ""
               THEN /\ run' = Stopped(page, ticker, range, "stopped: no ticker")
                    /\ UNCHANGED <<cache, last>>
               ELSE \E primary \in PrimaryChoices(cache, now, k) :
                      \E fallback \in FallbackChoices(cache, now, k, primary) :
                        LET r == CachedCall(cache, now, ticker, range[1], range[2],
                                            primary, fallback)
                        IN  /\ cache' = r.cache
                            /\ last' = CallRecord(k, r, primary, fallback)
                            /\ run' = Loaded(page, ticker, range, r.value,
                                             Outcome(r.value, TRUE))

\* pages/1 Stock_Timeline.py, lines 29-67
TimelineRun ==
    /\ cmp.pc = "idle"
    /\ SharedDatesRun("timeline")
    \* the other scripts are not running: their locals and output are gone
    /\ cmp' = CmpIdle /\ ta' = TaIdle /\ ks' = KsIdle
    /\ UNCHANGED now

\* pages/2 Key_Statistics.py, lines 17-57
StatisticsRun ==
    /\ cmp.pc = "idle"
    /\ SharedDatesRun("statistics")
    /\ ks' = IF run'.outcome \in {"done", "stopped: no prices"}
             THEN MetricsOf(PriceColumn(run'.df)) ELSE KsIdle
    \* the other scripts are not running: their locals and output are gone
    /\ cmp' = CmpIdle /\ ta' = TaIdle
    /\ UNCHANGED now

\* page 4, lines 30-33: date.today() - timedelta(days=730) and date.today()
TaDefault == <<1, 2>>

\* the two moving-average sliders: the defaults, and the one pair with short = long
MaWindows == {<<50, 200>>, <<100, 100>>}

\* pages/4 Technical Analysis.py, lines 23-92
TechnicalRun ==
    /\ cmp.pc = "idle"
    /\ \E ticker \in ViewTickers, range \in DateRanges, ma \in MaWindows :
         LET s1 == [session EXCEPT
                      !.selected_ticker = ticker,
                      !.ta_start = IF @ = UnsetDate THEN TaDefault[1] ELSE @,
                      !.ta_end = IF @ = UnsetDate THEN TaDefault[2] ELSE @]
             s2 == [s1 EXCEPT !.ta_start = range[1], !.ta_end = range[2]]
             k == <<ticker, range>>
         IN  IF BadDates(range)
             THEN /\ session' = s1
                  /\ run' = Stopped("technical", ticker, range, "stopped: dates")
                  /\ ta' = TaIdle
                  /\ UNCHANGED <<cache, last>>
             ELSE IF ma[1] >= ma[2]
             THEN /\ session' = s2
                  /\ run' = Stopped("technical", ticker, range, "stopped: windows")
                  /\ ta' = TaIdle
                  /\ UNCHANGED <<cache, last>>
             ELSE IF ticker = ""
             THEN /\ session' = s2
                  /\ run' = Stopped("technical", ticker, range, "stopped: no ticker")
                  /\ ta' = TaIdle
                  /\ UNCHANGED <<cache, last>>
             ELSE \E primary \in PrimaryChoices(cache, now, k) :
                    \E fallback \in FallbackChoices(cache, now, k, primary) :
                      LET r == CachedCall(cache, now, ticker, range[1], range[2],
                                          primary, fallback)
                          outcome == Outcome(r.value, FALSE)
                          \* lines 69-70: a copy of the price column, re-indexed
                          prices == DropNa(PriceColumn(r.value))
                      IN  /\ session' = s2
                          /\ cache' = r.cache
                          /\ last' = CallRecord(k, r, primary, fallback)
                          /\ run' = Loaded("technical", ticker, range, r.value, outcome)
                          /\ ta' = IF outcome = "done"
                                   THEN [pc |-> "done", prices |-> prices,
                                         rsi_win |-> RSI_WIN_MIN,
                                         rsi |-> RSI(prices, RSI_WIN_MIN)]
                                   ELSE TaIdle
    \* the other scripts are not running: their locals and output are gone
    /\ cmp' = CmpIdle /\ ks' = KsIdle
    /\ UNCHANGED now

\* pages/5 ETF_Index_Explorer.py, lines 33-94
EtfRun ==
    /\ cmp.pc = "idle"
    /\ \E ticker \in EtfTickers, range \in DateRanges, compare_spy \in BOOLEAN :
         LET k == <<ticker, range>>
             spy == <<"SPY", range>>
         IN  IF BadDates(range)
             THEN /\ run' = Stopped("etf", ticker, range, "stopped: dates")
                  /\ UNCHANGED <<cache, last>>
             ELSE \E primary \in PrimaryChoices(cache, now, k) :
                    \E fallback \in FallbackChoices(cache, now, k, primary) :
                      LET r == CachedCall(cache, now, ticker, range[1], range[2],
                                          primary, fallback)
                          df == r.value
                          \* line 75: df.index = pd.to_datetime(df.index)
                          reindexed == [Loaded("etf", ticker, range, df, "done") EXCEPT
                                          !.df_index = ToDatetime(IndexOf(df)),
                                          !.assigned = {"index"}]
                      IN  IF Outcome(df, TRUE) # "done"
                          THEN /\ cache' = r.cache
                               /\ last' = CallRecord(k, r, primary, fallback)
                               /\ run' = Loaded("etf", ticker, range, df, Outcome(df, TRUE))
                          ELSE IF ~(compare_spy /\ ticker # "SPY")
                          THEN /\ cache' = r.cache
                               /\ last' = CallRecord(k, r, primary, fallback)
                               /\ run' = reindexed
                          ELSE \* lines 78-88: the SPY benchmark is loaded as well
                               \E primary2 \in PrimaryChoices(r.cache, now, spy) :
                                 \E fallback2 \in FallbackChoices(r.cache, now, spy, primary2) :
                                   LET r2 == CachedCall(r.cache, now, "SPY", range[1],
                                                        range[2], primary2, fallback2)
                                   IN  /\ cache' = r2.cache
                                       /\ last' = CallRecord(spy, r2, primary2, fallback2)
                                       /\ run' = [reindexed EXCEPT
                                                    !.calls = <<k, spy>>,
                                                    !.outcome =
                                                       IF ~IsEmpty(r2.value)
                                                          /\ PriceCol(df) \notin r2.value.cols
                                                       THEN "crashed: KeyError"
                                                       ELSE "done"]
    \* the other scripts are not running: their locals and output are gone
    /\ cmp' = CmpIdle /\ ta' = TaIdle /\ ks' = KsIdle
    /\ UNCHANGED <<now, session>>

----------------------------------------------------------------------------

Init ==
    /\ now = 0
    /\ cache = NoEntries
    /\ last = NoCall
    /\ cmp = CmpIdle
    /\ ta = TaIdle
    /\ ks = KsIdle
    /\ session = NoSession
    /\ run = NoRun

\* the Technical Analysis script holding a price series and an RSI window
InitRsi ==
    /\ now = 0
    /\ cache = NoEntries
    /\ last = NoCall
    /\ cmp = CmpIdle
    /\ ta \in {[pc |-> "prices", prices |-> p, rsi_win |-> w, rsi |-> <<>>] :
                 p \in PriceSeries, w \in RSI_WIN_MIN .. MaxWin}
    /\ ks = KsIdle
    /\ session = NoSession
    /\ run = NoRun

Next == Call \/ Tick

Spec == Init /\ [][Next]_vars

\* a fetched table of MaxDates dates with the given closes
Fetched(t, c) ==
    [ticker |-> t,
     rows |-> PriceRows(BackfillAdj(MkFrame(<<FALSE, "">>, {"Open", "Close"},
                                            [i \in 1 .. MaxDates |-> c[i]])))]

\* the Comparison Dashboard after its fetch loop, holding the tables of two
\* tickers over the same dates, some of their prices missing
InitIndexed ==
    /\ now = 0
    /\ cache = NoEntries
    /\ last = NoCall
    /\ cmp \in {[CmpIdle EXCEPT !.pc = "fetch", !.tickers = TickerOrder,
                               !.i = Len(TickerOrder) + 1, !.fetched = TickerOrder,
                               !.frames = <<Fetched("AAPL", a), Fetched("MSFT", m)>>,
                               !.market_caps = Range(TickerOrder)] :
                 a \in [1 .. MaxDates -> PriceVals], m \in [1 .. MaxDates -> PriceVals]}
    /\ ta = TaIdle
    /\ ks = KsIdle
    /\ session = NoSession
    /\ run = NoRun

\* the indexed comparison and the summary on every such pair of tables
SpecIndexed == InitIndexed /\ [][CompareFinish]_vars

\* the Key Statistics script holding the price column of a fetched table
InitStats ==
    /\ now = 0
    /\ cache = NoEntries
    /\ last = NoCall
    /\ cmp = CmpIdle
    /\ ta = TaIdle
    /\ ks \in {[KsIdle EXCEPT !.pc = "column", !.column = c] : c \in KsColumns}
    /\ session = NoSession
    /\ run = NoRun

\* the metrics on every price column of the bounds
SpecStats == InitStats /\ [][ComputeMetrics]_vars

\* the tables a warm cache holds: one day of prices for every symbol but
\* MSFT, for which the upstream had nothing
WarmValue(ticker) ==
    IF ticker = "MSFT" THEN EmptyFrame
    ELSE Normalize(MkFrame(<<FALSE, "">>, {"Open", "Close"}, <<1>>), ticker)

WarmKeys ==
    (((Tickers \ {""}) \cup EtfTickers) \X {r \in DateRanges : r[1] <= r[2]})

\* a session whose cache already holds, fetched at this instant, every series
\* the views can ask for
InitSession ==
    /\ now = 0
    /\ cache = [k \in WarmKeys |->
                  [present |-> TRUE, value |-> WarmValue(k[1]), msgs |-> <<>>,
                   createdAt |-> 0]]
    /\ last = NoCall
    /\ cmp = CmpIdle
    /\ ta = TaIdle
    /\ ks = KsIdle
    /\ session = NoSession
    /\ run = NoRun

\* runs of the five views in one browser session, in any order
NextSession ==
    \/ TimelineRun
    \/ StatisticsRun
    \/ TechnicalRun
    \/ EtfRun
    \/ CompareBegin
    \/ CompareFetch
    \/ CompareFinish

SpecSession == InitSession /\ [][NextSession]_vars

\* runs of the Comparison Dashboard
NextCompare == CompareBegin \/ CompareFetch \/ CompareFinish

SpecCompare == Init /\ [][NextCompare]_vars

\* the RSI computation on every price series and window of the bounds
SpecRsi == InitRsi /\ [][ComputeRsi]_vars

----------------------------------------------------------------------------
(* Properties of load_data *)

Ticker(c) == c.key[1]

\* the last call ran the body of load_data for a non-empty ticker
Retrieved == last.called /\ ~last.hit /\ Ticker(last) # ""

\* a step in which load_data is called again with the arguments of the call before
SameCallAgain == now' = now /\ last.called /\ last'.key = last.key

\* C1: for a non-empty ticker, when load_data is called twice in a row with
\* the same (ticker, start, end) and the second call falls inside the one-hour
\* ttl window of the series the first call returned (less than one hour
\* after its upstream retrieval), the second call returns the same series,
\* replays the same messages and makes no upstream call.
C1_SecondCallWithinTtl ==
    [][(SameCallAgain /\ Ticker(last) # "" /\ now - last.createdAt < TTL)
        => (/\ last'.hit
            /\ last'.value = last.value
            /\ last'.msgs = last.msgs
            /\ last'.upstream = <<>>
            /\ cache' = cache)]_vars

\* a call served from the cache half an hour after the retrieval, with data
C1_Witness ==
    /\ last.called /\ last.hit /\ Ticker(last) # ""
    /\ last.at - last.createdAt > 0
    /\ ~IsEmpty(last.value)

\* C2: a fetch that failed (an upstream call raised, or both strategies
\* returned nothing) is not cached: the next fetch with the same arguments
\* contacts upstream again rather than return the earlier failure outcome.
C2_FailedFetchNotCached ==
    [][(SameCallAgain /\ ~last.hit /\ Ticker(last) # "" /\ IsEmpty(last.value))
        => (last'.upstream # <<>>)]_vars

\* C3 as stated: when the bulk download raises, the single-ticker history
\* call is still attempted.
C3_FallbackAfterPrimaryError ==
    (Retrieved /\ last.primary.raises) => last.upstream = <<"download", "history">>

\* C3 as amended: when the bulk download raises, load_data reports the
\* error and returns an empty table without calling history(); history() is
\* called exactly when the download returned an empty table without
\* raising, and when it then returns rows they are what load_data returns.
C3_FallbackOnlyAfterEmptyPrimary ==
    Retrieved =>
        /\ last.primary.raises =>
               /\ last.upstream = <<"download">>
               /\ last.value = EmptyFrame
               /\ last.msgs = <<"download error">>
        /\ (last.upstream = <<"download", "history">>)
               <=> (~last.primary.raises /\ IsEmpty(last.primary.df))
        /\ (last.upstream = <<"download", "history">> /\ ~last.fallback.raises
              /\ ~IsEmpty(last.fallback.df))
               => (last.value.n = last.fallback.df.n /\ last.value.close = last.fallback.df.close)

C3_Witness == Retrieved /\ last.primary.raises

\* C4: when the download returns an empty table and history() returns rows,
\* load_data returns history()'s rows under flat columns, reports no error,
\* and has called history() once, after the download.
C4_FallbackDataReturned ==
    (Retrieved /\ ~last.primary.raises /\ IsEmpty(last.primary.df)
       /\ ~last.fallback.raises /\ ~IsEmpty(last.fallback.df))
    => /\ last.upstream = <<"download", "history">>
       /\ last.msgs = <<>>
       /\ ~last.value.multi
       /\ last.value.n = last.fallback.df.n
       /\ last.value.close = last.fallback.df.close
       /\ last.fallback.df.cols \subseteq last.value.cols
       /\ "Adj Close" \in last.fallback.df.cols => last.value.adj = last.fallback.df.adj

C4_Witness ==
    /\ Retrieved /\ ~last.primary.raises /\ IsEmpty(last.primary.df)
    /\ ~last.fallback.raises /\ last.fallback.df.multi /\ last.fallback.df.n > 0
    /\ last.value.n > 0

\* the upstream table a retrieval took its rows from
Source(c) == IF ~IsEmpty(c.primary.df) THEN c.primary.df ELSE c.fallback.df

\* C5: an entry whose age has reached the ttl is not served: the call runs
\* the body again (contacting upstream for a non-empty ticker), returns
\* what this retrieval produced and stores it with the current time.
C5_ExpiredEntryNotServed ==
    (last.called /\ last.age >= TTL)
    => /\ ~last.hit
       /\ last.createdAt = last.at
       /\ Ticker(last) # "" => (last.upstream # <<>> /\ last.upstream[1] = "download")
       /\ last.value.n = Source(last).n /\ last.value.close = Source(last).close
       /\ Entry(cache, last.key).value = last.value
       /\ Entry(cache, last.key).createdAt = last.at

\* a call that met an entry exactly one hour old and fetched rows afresh
C5_Witness ==
    /\ last.called /\ last.age = TTL /\ Ticker(last) # ""
    /\ ~last.hit /\ last.value.n > 0

\* C6: load_data with an empty ticker returns an empty table, makes no
\* upstream call and reports no error.
C6_EmptyTicker ==
    (last.called /\ Ticker(last) = "")
    => (last.value = EmptyFrame /\ last.upstream = <<>> /\ last.msgs = <<>>)

C6_Witness == last.called /\ Ticker(last) = "" /\ ~last.hit

\* C7: every non-empty table load_data returns has an Adj Close column,
\* equal to Close when the upstream table had none.
C7_AdjCloseAlwaysPresent ==
    (Retrieved /\ ~IsEmpty(last.value))
    => /\ "Adj Close" \in last.value.cols
       /\ "Adj Close" \notin Source(last).cols => last.value.adj = last.value.close

\* the call ran both strategies and both returned nothing
NoDataRun(c) ==
    /\ c.called /\ ~c.hit /\ Ticker(c) # ""
    /\ ~c.primary.raises /\ IsEmpty(c.primary.df)
    /\ ~c.fallback.raises /\ IsEmpty(c.fallback.df)

\* the call met an upstream call that raised
UpstreamErrorRun(c) ==
    /\ c.called /\ ~c.hit /\ Ticker(c) # ""
    /\ (c.primary.raises \/ c.fallback.raises)

\* C8 as stated: a run in which an upstream call raised and a run in which
\* both strategies returned nothing never return the same value.
C8_NoDataAndErrorDiffer ==
    [][(UpstreamErrorRun(last) /\ NoDataRun(last')) => last'.value # last.value]_vars

\* C8 as amended: both outcomes are an empty table, and the returned value
\* need not differ; what tells them apart is the error message load_data
\* reports, which it does exactly when an upstream call raised.
C8_ErrorToldApartByMessageOnly ==
    Retrieved =>
        /\ (last.primary.raises \/ last.fallback.raises) <=> (last.msgs # <<>>)
        /\ (last.primary.raises \/ last.fallback.raises) => last.value = EmptyFrame
        /\ (~last.primary.raises /\ IsEmpty(last.primary.df)
              /\ ~last.fallback.raises /\ IsEmpty(last.fallback.df))
               => (IsEmpty(last.value) /\ last.msgs = <<>>)

C8_Witness ==
    Retrieved /\ ~last.primary.raises /\ last.fallback.raises /\ last.value = EmptyFrame

----------------------------------------------------------------------------
(* Properties of the Comparison Dashboard *)

CmpEnded == cmp.pc = "idle" /\ cmp.outcome \notin {"none", "stopped: no tickers", "stopped: dates"}

\* the tickers whose fetch returned a non-empty table
CmpWithData == Range(cmp.fetched) \ cmp.skipped

\* C9: in a comparison of several tickers, a failed or empty fetch for one
\* ticker does not stop the run: every requested ticker is fetched, the
\* indexed comparison and the summary are produced for exactly the tickers
\* whose fetch returned data, and the run stops only when none returned data.
C9_FailureIsolated ==
    (CmpEnded /\ Len(cmp.tickers) >= 2) =>
        /\ cmp.fetched = cmp.tickers
        /\ cmp.outcome # "done" <=> CmpWithData = {}
        /\ cmp.outcome = "done" =>
              /\ {x.ticker : x \in Range(cmp.indexed)} = CmpWithData
              /\ {x.ticker : x \in Range(cmp.summary)} = CmpWithData

\* C14: in the indexed comparison every included ticker's prices are divided
\* by that ticker's own earliest-dated price in the range, so its indexed
\* value at its own first date is exactly 100, whatever the first dates of the
\* other tickers.
C14_IndexedStartsAtHundred ==
    (cmp.pc = "idle" /\ cmp.outcome = "done") =>
        \A x \in Range(cmp.indexed) :
            LET rows == Subset(cmp.frames, x.ticker)
                first == CHOOSE r \in Range(rows) : \A q \in Range(rows) : r[1] <= q[1]
            IN  /\ rows # <<>>
                /\ Len(x.rows) = Len(rows)
                /\ \A i \in 1 .. Len(rows) :
                      /\ x.rows[i].date = rows[i][1]
                      /\ x.rows[i].den = first[2]
                      /\ x.rows[i].num = rows[i][2] * 100
                      /\ rows[i][1] = first[1] => x.rows[i].num = 100 * x.rows[i].den

\* two tickers whose first priced dates differ, each starting at 100 of its
\* own first price and moving away from it afterwards
C14_Witness ==
    /\ cmp.pc = "idle" /\ cmp.outcome = "done"
    /\ Len(cmp.indexed) = 2
    /\ cmp.indexed[1].rows[1].date # cmp.indexed[2].rows[1].date
    /\ \A j \in 1 .. 2 :
          /\ Len(cmp.indexed[j].rows) >= 2
          /\ cmp.indexed[j].rows[1].num = 100 * cmp.indexed[j].rows[1].den
          /\ cmp.indexed[j].rows[2].num # 100 * cmp.indexed[j].rows[2].den

\* the dates on which ticker t has a daily return: every date of its price
\* rows but the first
ReturnDates(t) ==
    LET rows == Subset(cmp.frames, t)
    IN  {rows[i][1] : i \in 2 .. Len(rows)}

\* C12: the correlation matrix is computed exactly when at least 2 tickers
\* have return series with at least 2 dates in common; otherwise the lack of
\* overlap is reported and no matrix is computed (so also for one ticker
\* with data next to tickers that were skipped).
C12_CorrelationNeedsOverlap ==
    (cmp.pc = "idle" /\ cmp.outcome = "done") =>
        /\ cmp.corr \in {"matrix", "info"}
        /\ cmp.corr = "matrix" <=>
              \E a, b \in Range(cmp.tickers) :
                  a # b /\ Cardinality(ReturnDates(a) \cap ReturnDates(b)) >= 2

----------------------------------------------------------------------------
(* Properties of the RSI computation *)

\* position i has a full window of w day-to-day moves
FullWindow(i, w) == i - w + 1 >= 2

NoLoss(p, i, w) == \A j \in i - w + 1 .. i : p[j] >= p[j - 1]
SomeGain(p, i, w) == \E j \in i - w + 1 .. i : p[j] > p[j - 1]

\* C10 as stated: where the window holds no loss (mean loss 0), the RSI is
\* undefined, never 100.
C10_NoLossIsUndefined ==
    ta.pc = "done" =>
        \A i \in 1 .. Len(ta.prices) :
            (FullWindow(i, ta.rsi_win) /\ NoLoss(ta.prices, i, ta.rsi_win))
            => ta.rsi[i].kind = "nan"

\* C10 as amended: where the window holds no loss, the RSI is exactly 100
\* when the window holds a gain (as on a strictly increasing series), and
\* undefined only when it holds no gain either (flat prices); the
\* computation yields a value for every position.
C10_NoLossIsHundred ==
    ta.pc = "done" =>
        /\ Len(ta.rsi) = Len(ta.prices)
        /\ \A i \in 1 .. Len(ta.prices) :
              (FullWindow(i, ta.rsi_win) /\ NoLoss(ta.prices, i, ta.rsi_win))
              => IF SomeGain(ta.prices, i, ta.rsi_win)
                 THEN ta.rsi[i].kind = "num" /\ ta.rsi[i].num = 100 * ta.rsi[i].den
                 ELSE ta.rsi[i].kind = "nan"

\* a strictly increasing series with a full window at its last position
C10_Witness ==
    /\ ta.pc = "done"
    /\ Len(ta.prices) > ta.rsi_win
    /\ \A j \in 2 .. Len(ta.prices) : ta.prices[j] > ta.prices[j - 1]
    /\ ta.rsi[Len(ta.prices)] = Num(100, 1)

----------------------------------------------------------------------------
(* Properties of the Key Statistics metrics *)

\* the total return equals (last / first - 1) * 100
IsReturnOf(r, prices) ==
    /\ r.kind = "num"
    /\ r.num * prices[1] = (prices[Len(prices)] - prices[1]) * 100 * r.den

\* C11 as stated: on fewer than 2 prices the total return is a failure and
\* not a number; on 2 or more it is (last / first - 1) * 100.
C11_FewPointsFail ==
    ks.pc = "done" =>
        /\ Len(ks.prices) < 2 => ks.total_return.kind # "num"
        /\ Len(ks.prices) >= 2 => IsReturnOf(ks.total_return, ks.prices)

\* C11 as amended: the total return is computed for every non-empty price
\* series and is (last / first - 1) * 100, which is 0 for a series of one
\* point; no failure is raised. A series without prices never reaches
\* the computation: the script stops before it with a warning.
C11_OnePointIsZero ==
    ks.pc = "done" =>
        /\ ks.outcome = "stopped: no prices" <=> DropNa(ks.column) = <<>>
        /\ ks.outcome = "stopped: no prices" => ks.total_return = Unset
        /\ ks.outcome = "metrics" =>
              /\ ks.prices = DropNa(ks.column)
              /\ IsReturnOf(ks.total_return, ks.prices)
              /\ Len(ks.prices) = 1 => ks.total_return.num = 0

\* the metrics of a one-point series, with 0 as the total return
C11_Witness ==
    /\ ks.pc = "done" /\ ks.outcome = "metrics"
    /\ Len(ks.prices) = 1
    /\ ks.total_return.kind = "num" /\ ks.total_return.num = 0

\* C13: on a non-empty series of positive prices the drawdown series
\* (price / running maximum - 1) * 100 starts at 0 and is never above 0; the
\* maximum drawdown is the absolute value of its minimum, is >= 0, and is 0
\* for a series of one point.
C13_DrawdownNeverPositive ==
    (ks.pc = "done" /\ ks.outcome = "metrics") =>
        /\ Len(ks.drawdown) = Len(ks.prices)
        /\ ks.drawdown[1].kind = "num" /\ ks.drawdown[1].num = 0
        /\ \A i \in 1 .. Len(ks.prices) :
              /\ ks.drawdown[i].kind = "num" /\ ks.drawdown[i].den > 0
              /\ ks.drawdown[i].num <= 0
              /\ ks.drawdown[i].num * Largest({ks.prices[j] : j \in 1 .. i})
                   = (ks.prices[i] - Largest({ks.prices[j] : j \in 1 .. i})) * 100
                       * ks.drawdown[i].den
        /\ ks.max_dd.kind = "num" /\ ks.max_dd.den > 0 /\ ks.max_dd.num >= 0
        /\ \E i \in 1 .. Len(ks.prices) :
              ks.max_dd.num * ks.drawdown[i].den = (0 - ks.drawdown[i].num) * ks.max_dd.den
        /\ \A i \in 1 .. Len(ks.prices) :
              (0 - ks.drawdown[i].num) * ks.max_dd.den <= ks.max_dd.num * ks.drawdown[i].den
        /\ Len(ks.prices) = 1 => ks.max_dd.num = 0

\* a series that falls and then rises above its earlier peak
C13_Witness ==
    /\ ks.pc = "done" /\ ks.outcome = "metrics"
    /\ Len(ks.prices) >= 3
    /\ ks.prices[2] < ks.prices[1]
    /\ ks.prices[3] > ks.prices[1]
    /\ ks.max_dd.num > 0

----------------------------------------------------------------------------
(* Properties of the views *)

\* C15: a table returned by load_data is never modified by the view that
\* asked for it: when the script ends the table has the rows, columns and
\* index it was returned with, and the script assigned to none of its
\* attributes.
C15_ReturnedNeverModified ==
    run.calls # <<>> =>
        /\ run.df = run.returned
        /\ run.df_index = run.returned_index
        /\ run.assigned = {}

Reversed(range) == range[1] > range[2]

\* C16: a run of a view with start date later than end date is flagged and
\* stops before any load_data call, so load_data is never called, and no
\* cache entry ever made, with start > end.
C16_NoLoadWithReversedDates ==
    /\ last.called => ~Reversed(last.key[2])
    /\ \A k \in DOMAIN cache : ~Reversed(k[2])
    /\ \A i \in 1 .. Len(run.calls) : ~Reversed(run.calls[i][2])
    /\ (run.page # "none" /\ Reversed(run.range))
          => (run.outcome = "stopped: dates" /\ run.calls = <<>>)
    /\ Reversed(cmp.range)
          => (cmp.pc = "idle" /\ cmp.outcome = "stopped: dates" /\ cmp.fetched = <<>>)

\* a run with reversed dates that stopped, after an earlier run had loaded data
C16_Witness ==
    /\ run.page # "none" /\ Reversed(run.range)
    /\ run.outcome = "stopped: dates" /\ run.calls = <<>>
    /\ last.called

\* C17: the shared start_date and end_date are set together and, once set,
\* satisfy start_date <= end_date; a run of the Timeline, Key Statistics or
\* Comparison view whose inputs have start > end leaves both unchanged, while
\* the Timeline and Key Statistics views have by then stored the ticker of
\* that run as selected_ticker.
C17_StoredDatesOrdered ==
    /\ [](/\ session.start_date = UnsetDate <=> session.end_date = UnsetDate
          /\ session.start_date <= session.end_date)
    /\ [][/\ (run'.page \in {"timeline", "statistics"} /\ run'.outcome = "stopped: dates")
               => /\ session'.start_date = session.start_date
                  /\ session'.end_date = session.end_date
                  /\ session'.selected_ticker = run'.ticker
          /\ cmp'.outcome = "stopped: dates"
               => /\ session'.start_date = session.start_date
                  /\ session'.end_date = session.end_date]_vars

\* stored dates that survived a run with reversed inputs, whose ticker
\* replaced the stored one
C17_Witness ==
    /\ run.page \in {"timeline", "statistics"} /\ run.outcome = "stopped: dates"
    /\ session.start_date # UnsetDate
    /\ session.start_date = session.end_date
    /\ session.selected_ticker = run.ticker /\ run.ticker = ""

====
